---- MODULE Spec2Model ----
(***************************************************************************)
(* Model of the JSON extraction / parsing pipeline of                      *)
(* SchemaGenerator.generate_schema and of SchemaValidator.validate_schema  *)
(* (src/schema_generator.py).                                              *)
(*                                                                         *)
(* Text is a sequence of symbols.  A symbol is either one character that   *)
(* matters to str.find / json.loads ("{", "}", "[", "]", ":", ",", the     *)
(* double quote, a blank, the digit "1") or a run of letters that holds    *)
(* none of those characters ("tables", "null", "x", ...).  A Python value  *)
(* is carried as its canonical JSON text (no blanks outside strings, one   *)
(* member per key), so that equality of values is equality of sequences.   *)
(***************************************************************************)
EXTENDS Integers, Sequences, FiniteSets, TLC

VARIABLES
    pc,            \* position inside generate_schema
    response,      \* what schema_chain.invoke returned
    json_start,    \* response_content.find('{')
    json_end,      \* response_content.rfind('}') + 1
    json_str,      \* the text handed to the first json.loads
    attempts,      \* every text handed to json.loads, in order
    decode_failed, \* a JSONDecodeError was caught in _parse_schema_response
    schema_data,   \* what _parse_schema_response returned
    result,        \* the dict generate_schema returns
    vpc,           \* position of the validator run
    vschema,       \* the schema_data handed to validate_schema
    issues         \* the list validate_schema returns

pvars == <<pc, response, json_start, json_end, json_str, attempts,
           decode_failed, schema_data, result>>
vvars == <<vpc, vschema, issues>>
vars == <<pvars, vvars>>

----------------------------------------------------------------------------
(* Bounds *)

\* longest response text enumerated symbol by symbol
MaxLen == 4
\* longest text put before and after a sample document
MaxPad == 1
\* tables plus fields of a schema handed to the validator
MaxSize == 4

----------------------------------------------------------------------------
(* Text *)

QUOTE == "\""

Alphabet == {"{", "}", "[", "]", ":", ",", QUOTE, " ", "1", "null", "x"}

PadAlphabet == {"{", "}", QUOTE, " ", "x"}

RECURSIVE SeqsUpTo(_, _)
SeqsUpTo(S, n) ==
    IF n = 0 THEN {<<>>}
    ELSE LET shorter == SeqsUpTo(S, n - 1)
         IN  shorter \cup {Append(t, c) : t \in shorter, c \in S}

\* str.find(ch): index (from 0) of the first occurrence, -1 when there is none
Find(s, ch) ==
    IF \E i \in 1..Len(s) : s[i] = ch
    THEN (CHOOSE i \in 1..Len(s) : s[i] = ch /\ \A j \in 1..(i - 1) : s[j] # ch) - 1
    ELSE -1

\* str.rfind(ch): index (from 0) of the last occurrence, -1 when there is none
RFind(s, ch) ==
    IF \E i \in 1..Len(s) : s[i] = ch
    THEN (CHOOSE i \in 1..Len(s) : s[i] = ch /\ \A j \in (i + 1)..Len(s) : s[j] # ch) - 1
    ELSE -1

\* s[a:b] for 0 <= a and 0 <= b
PySlice(s, a, b) ==
    LET hi == IF b > Len(s) THEN Len(s) ELSE b
    IN  IF a < hi THEN SubSeq(s, a + 1, hi) ELSE <<>>

----------------------------------------------------------------------------
(* json.loads: strict JSON decoding of a text *)

\* the failure of a decoding step (json.JSONDecodeError)
NoValue == [ok |-> FALSE, end |-> 0, kind |-> "error", canon |-> <<>>, members |-> <<>>]

Value(kind, canon, end, members) ==
    [ok |-> TRUE, end |-> end, kind |-> kind, canon |-> canon, members |-> members]

\* the position of the first symbol at or after i that is not a blank
RECURSIVE SkipWs(_, _)
SkipWs(s, i) ==
    IF i <= Len(s) /\ s[i] = " " THEN SkipWs(s, i + 1) ELSE i

\* the position of the first double quote at or after i, 0 when there is none
RECURSIVE CloseQuote(_, _)
CloseQuote(s, i) ==
    IF i > Len(s) THEN 0
    ELSE IF s[i] = QUOTE THEN i ELSE CloseQuote(s, i + 1)

\* the position after the run of digits that starts at i
RECURSIVE DigitsEnd(_, _)
DigitsEnd(s, i) ==
    IF i <= Len(s) /\ s[i] = "1" THEN DigitsEnd(s, i + 1) ELSE i

\* dict assignment d[key] = val on an insertion-ordered list of <<key, value>>
DictSet(members, key, val) ==
    IF \E n \in 1..Len(members) : members[n][1] = key
    THEN [n \in 1..Len(members) |->
             IF members[n][1] = key THEN <<key, val>> ELSE members[n]]
    ELSE Append(members, <<key, val>>)

RECURSIVE JoinMembers(_, _)
JoinMembers(members, n) ==
    IF n > Len(members) THEN <<>>
    ELSE (IF n > 1 THEN <<",">> ELSE <<>>)
         \o members[n][1] \o <<":">> \o members[n][2]
         \o JoinMembers(members, n + 1)

DictCanon(members) == <<"{">> \o JoinMembers(members, 1) \o <<"}">>

RECURSIVE ParseValue(_, _)
RECURSIVE ParseElems(_, _, _)
RECURSIVE ParseMembers(_, _, _)

\* the elements of an array from position i on; acc is the canonical text so far
ParseElems(s, i, acc) ==
    LET v == ParseValue(s, i)
        k == SkipWs(s, v.end)
    IN  IF ~v.ok \/ k > Len(s) THEN NoValue
        ELSE IF s[k] = "," THEN ParseElems(s, SkipWs(s, k + 1), acc \o v.canon \o <<",">>)
        ELSE IF s[k] = "]" THEN Value("list", acc \o v.canon \o <<"]">>, k + 1, <<>>)
        ELSE NoValue

\* the members of an object from position i on
ParseMembers(s, i, members) ==
    IF i > Len(s) \/ s[i] # QUOTE THEN NoValue
    ELSE
    LET key == ParseValue(s, i)
        c   == SkipWs(s, key.end)
    IN  IF ~key.ok \/ c > Len(s) \/ s[c] # ":" THEN NoValue
        ELSE
        LET v   == ParseValue(s, SkipWs(s, c + 1))
            k   == SkipWs(s, v.end)
            all == DictSet(members, key.canon, v.canon)
        IN  IF ~v.ok \/ k > Len(s) THEN NoValue
            ELSE IF s[k] = "," THEN ParseMembers(s, SkipWs(s, k + 1), all)
            ELSE IF s[k] = "}" THEN Value("dict", DictCanon(all), k + 1, all)
            ELSE NoValue

\* the JSON value that starts at position i
ParseValue(s, i) ==
    IF i > Len(s) THEN NoValue
    ELSE IF s[i] = QUOTE THEN
        LET j == CloseQuote(s, i + 1)
        IN  IF j = 0 THEN NoValue ELSE Value("str", SubSeq(s, i, j), j + 1, <<>>)
    ELSE IF s[i] = "1" THEN
        LET j == DigitsEnd(s, i)
        IN  Value("int", SubSeq(s, i, j - 1), j, <<>>)
    ELSE IF s[i] = "null" THEN Value("NoneType", <<"null">>, i + 1, <<>>)
    ELSE IF s[i] = "[" THEN
        LET k == SkipWs(s, i + 1)
        IN  IF k <= Len(s) /\ s[k] = "]" THEN Value("list", <<"[", "]">>, k + 1, <<>>)
            ELSE ParseElems(s, k, <<"[">>)
    ELSE IF s[i] = "{" THEN
        LET k == SkipWs(s, i + 1)
        IN  IF k <= Len(s) /\ s[k] = "}" THEN Value("dict", <<"{", "}">>, k + 1, <<>>)
            ELSE ParseMembers(s, k, <<>>)
    ELSE NoValue

\* json.loads(s): the decoded value, or NoValue when JSONDecodeError is raised
JsonLoads(s) ==
    LET v == ParseValue(s, SkipWs(s, 1))
    IN  IF v.ok /\ SkipWs(s, v.end) = Len(s) + 1 THEN v ELSE NoValue

\* d.get(key, default) on a decoded dict; key is the canonical text of the key
DictGet(d, key, default) ==
    IF \E n \in 1..Len(d.members) : d.members[n][1] = key
    THEN d.members[CHOOSE n \in 1..Len(d.members) : d.members[n][1] = key][2]
    ELSE default

Str(word) == <<QUOTE, word, QUOTE>>
EmptyList == <<"[", "]">>

----------------------------------------------------------------------------
(* SchemaGenerator: generate_schema and _parse_schema_response *)

\* sample LLM answers: JSON documents of the shape the schema prompt asks for
Documents == {
    <<"{", QUOTE, "tables", QUOTE, ":", "[", "]", "}">>,
    <<"{", QUOTE, "tables", QUOTE, ":", "[", "{", "}", "]", ",",
      QUOTE, "relationships", QUOTE, ":", "[", "1", "]", ",",
      QUOTE, "design_decisions", QUOTE, ":", "[", QUOTE, "x", QUOTE, "]", "}">>,
    <<"{", " ", QUOTE, "tables", QUOTE, " ", ":", " ", "[", "{", " ", "}", ",", " ", "1", "]", " ", "}">>,
    <<"{", QUOTE, "tables", QUOTE, ":", "null", "}">>,
    <<"{", QUOTE, "tables", QUOTE, ":", "[", "1", "]", ",",
      QUOTE, "tables", QUOTE, ":", "[", "]", "}">>,
    <<"{", QUOTE, "design_decisions", QUOTE, ":", "[", QUOTE, "{", "x", QUOTE, "]", "}">>,
    <<"[", "{", "}", ",", "{", "}", "]">>
}

Pads == SeqsUpTo(PadAlphabet, MaxPad)

\* the texts the LLM may answer with
Texts ==
    SeqsUpTo(Alphabet, MaxLen)
    \cup {pre \o doc \o suf : pre \in Pads, doc \in Documents, suf \in Pads}

\* a response is a plain str or a message object that has a .content
Responses == [kind : {"str", "message"}, content : Texts]

NoResponse == [kind |-> "none", content |-> <<>>]
EmptyStr == [kind |-> "str", content |-> <<>>]

\* response.content if hasattr(response, 'content') else response
ResponseContent(r) == r.content

NoDict == [ok |-> FALSE, end |-> 0, kind |-> "none", canon |-> <<>>, members |-> <<>>]

\* the dict _fallback_parse returns
FallbackTables ==
    <<"[", "{", QUOTE, "name", QUOTE, ":", QUOTE, "parsing_error", QUOTE, ",",
      QUOTE, "description", QUOTE, ":", QUOTE, "Could not parse response", QUOTE, ",",
      QUOTE, "fields", QUOTE, ":", "[", "]", "}", "]">>

FallbackDecisions ==
    <<"[", QUOTE, "Response parsing failed - please check the raw response", QUOTE, "]">>

FallbackParse(r) ==
    LET members == << <<Str("tables"), FallbackTables>>,
                      <<Str("relationships"), EmptyList>>,
                      <<Str("design_decisions"), FallbackDecisions>> >>
    IN  Value("dict", DictCanon(members), 0, members)

\* JsonCandidate with the slice ending before the last "}"
JsonCandidateExclusive(content) ==
    LET start == Find(content, "{")
        end   == RFind(content, "}")
    IN  IF start # -1 /\ end # -1
        THEN PySlice(content, start, end)
        ELSE content

\* the text _parse_schema_response hands to json.loads
JsonCandidate(content) ==
    LET start == Find(content, "{")
        end   == RFind(content, "}") + 1
    IN  IF start # -1 /\ end # -1
        THEN PySlice(content, start, end)
        ELSE content

\* ParseSchemaResponse with a second json.loads, of the whole text, before the
\* fallback
ParseSchemaResponseRetry(r) ==
    LET candidate == JsonCandidate(ResponseContent(r))
        decoded   == JsonLoads(candidate)
        whole     == JsonLoads(ResponseContent(r))
    IN  IF decoded.ok
        THEN [attempts |-> <<candidate>>, decode_failed |-> FALSE, data |-> decoded]
        ELSE [attempts |-> <<candidate, ResponseContent(r)>>,
              decode_failed |-> ~whole.ok,
              data |-> IF whole.ok THEN whole ELSE FallbackParse(r)]

\* _parse_schema_response(response): the dict it returns (data), the texts it
\* handed to json.loads on the way (attempts) and whether it caught a
\* JSONDecodeError (decode_failed)
ParseSchemaResponse(r) ==
    LET candidate == JsonCandidate(ResponseContent(r))
        decoded   == JsonLoads(candidate)
    IN  [attempts |-> <<candidate>>,
         decode_failed |-> ~decoded.ok,
         data |-> IF decoded.ok THEN decoded ELSE FallbackParse(r)]

\* [f"Error parsing response: {e}"]
ErrorDecisions(msg) == <<"[", QUOTE, "Error parsing response: ">> \o msg \o <<QUOTE, "]">>

\* the dict of the except branch of generate_schema
ErrorResult(raw, msg) ==
    [tables |-> EmptyList, relationships |-> EmptyList,
     design_decisions |-> ErrorDecisions(msg),
     raw_response |-> raw, parsed_successfully |-> FALSE]

\* the value of 'parsed_successfully' in the dict of the try branch
ParsedFlag(data) == TRUE

\* str(e) of the AttributeError that data.get raises when data is no dict
NoGetMessage(data) == <<"'", data.kind, "' object has no attribute 'get'">>

\* SchemaResult with 'relationships' read from the key 'tables'
SchemaResultWrongKey(data, r) ==
    IF data.kind = "dict"
    THEN [tables |-> DictGet(data, Str("tables"), EmptyList),
          relationships |-> DictGet(data, Str("tables"), EmptyList),
          design_decisions |-> DictGet(data, Str("design_decisions"), EmptyList),
          raw_response |-> r, parsed_successfully |-> ParsedFlag(data)]
    ELSE ErrorResult(r, NoGetMessage(data))

\* the dict generate_schema returns once _parse_schema_response has returned
SchemaResult(data, r) ==
    IF data.kind = "dict"
    THEN [tables |-> DictGet(data, Str("tables"), EmptyList),
          relationships |-> DictGet(data, Str("relationships"), EmptyList),
          design_decisions |-> DictGet(data, Str("design_decisions"), EmptyList),
          raw_response |-> r, parsed_successfully |-> ParsedFlag(data)]
    ELSE ErrorResult(r, NoGetMessage(data))

NoResult ==
    [tables |-> <<>>, relationships |-> <<>>, design_decisions |-> <<>>,
     raw_response |-> NoResponse, parsed_successfully |-> FALSE]

\* response = schema_chain.invoke(...): the LLM answers with any response
Invoke ==
    /\ pc = "start"
    /\ \E r \in Responses : response' = r
    /\ pc' = "invoked"
    /\ UNCHANGED <<json_start, json_end, json_str, attempts, decode_failed,
                   schema_data, result>>
    /\ UNCHANGED vvars

\* schema_chain.invoke raises: the except branch runs with no response bound
InvokeFails ==
    /\ pc = "start"
    /\ result' = ErrorResult(EmptyStr, <<"invoke failed">>)
    /\ pc' = "done"
    /\ UNCHANGED <<response, json_start, json_end, json_str, attempts,
                   decode_failed, schema_data>>
    /\ UNCHANGED vvars

\* schema_data = self._parse_schema_response(response)
ParseResponse ==
    /\ pc = "invoked"
    /\ json_start' = Find(ResponseContent(response), "{")
    /\ json_end' = RFind(ResponseContent(response), "}") + 1
    /\ LET parsed == ParseSchemaResponse(response)
       IN  /\ json_str' = parsed.attempts[1]
           /\ attempts' = parsed.attempts
           /\ decode_failed' = parsed.decode_failed
           /\ schema_data' = parsed.data
    /\ pc' = "parsed"
    /\ UNCHANGED <<response, result>>
    /\ UNCHANGED vvars

\* the return of the try branch, or of the except branch when .get raises
Return ==
    /\ pc = "parsed"
    /\ result' = SchemaResult(schema_data, response)
    /\ pc' = "done"
    /\ UNCHANGED <<response, json_start, json_end, json_str, attempts,
                   decode_failed, schema_data>>
    /\ UNCHANGED vvars

----------------------------------------------------------------------------
(* SchemaValidator.validate_schema *)

\* a key that may be missing from a dict holds "absent"; a JSON boolean
\* holds "true" or "false"
Flags == {"absent", "false", "true"}

TableNameSet == {<<"orders">>, <<"customers">>}
FieldNameSet == {<<"customer_id">>}
RefSet == {<<>>, <<"customers">>, <<"customers", ".", "id">>, <<"items", ".", "id">>}

\* the field dicts a schema may hold: a field that is a foreign key, with each
\* references value or none; a field that says it is none, with a dangling
\* references value all the same; a field with neither key
FieldSet ==
    [name : FieldNameSet, is_primary_key : Flags, is_foreign_key : {"true"},
     has_references : {TRUE}, references : RefSet]
    \cup
    [name : FieldNameSet, is_primary_key : Flags, is_foreign_key : {"true", "absent"},
     has_references : {FALSE}, references : {<<>>}]
    \cup
    [name : FieldNameSet, is_primary_key : Flags, is_foreign_key : {"false"},
     has_references : {TRUE}, references : {<<"items", ".", "id">>}]

\* field.get(key, False) of a boolean key, taken as a condition
GetFlag(field, key) == field[key] = "true"

\* field.get('references', '')
GetReferences(field) == IF field.has_references THEN field.references ELSE <<>>

\* table.get('fields', [])
GetFields(table) == IF table.has_fields THEN table.fields ELSE <<>>

\* schema_data.get('tables', [])
GetTables(schema) == IF schema.has_tables THEN schema.tables ELSE <<>>

\* '.' in ref
HasDot(ref) == \E n \in 1..Len(ref) : ref[n] = "."

\* RefTable with no split: the whole references
RefTableWhole(ref) == ref

\* ref.split('.')[0]
RefTable(ref) == IF HasDot(ref) THEN PySlice(ref, 0, Find(ref, ".")) ELSE ref

\* x in table_names
InNames(x, table_names) == \E n \in 1..Len(table_names) : table_names[n] = x

NoTablesIssue == <<"No tables found in schema">>

NoPkIssue(table) == <<"Table '">> \o table.name \o <<"' has no primary key">>

FkIssue(table, field, ref_table) ==
    <<"Foreign key in '">> \o table.name \o <<".">> \o field.name
    \o <<"' references non-existent table '">> \o ref_table \o <<"'">>

\* HasPk with all() in place of any()
HasPkAll(table) ==
    \A n \in 1..Len(GetFields(table)) : GetFlag(GetFields(table)[n], "is_primary_key")

\* any(field.get('is_primary_key', False) for field in table.get('fields', []))
HasPk(table) ==
    \E n \in 1..Len(GetFields(table)) : GetFlag(GetFields(table)[n], "is_primary_key")

\* FieldIssues with no test of is_foreign_key
FieldIssuesAnyField(table, field, table_names) ==
    LET ref == GetReferences(field)
    IN  IF ref # <<>> /\ HasDot(ref)
        THEN IF ~InNames(RefTable(ref), table_names)
             THEN <<FkIssue(table, field, RefTable(ref))>>
             ELSE <<>>
        ELSE <<>>

\* what the body of the inner loop appends for one field
FieldIssues(table, field, table_names) ==
    IF GetFlag(field, "is_foreign_key")
    THEN LET ref == GetReferences(field)
         IN  IF ref # <<>> /\ HasDot(ref)
             THEN IF ~InNames(RefTable(ref), table_names)
                  THEN <<FkIssue(table, field, RefTable(ref))>>
                  ELSE <<>>
             ELSE <<>>
    ELSE <<>>

\* the inner loop from field n on
RECURSIVE FieldLoop(_, _, _)
FieldLoop(table, n, table_names) ==
    IF n > Len(GetFields(table)) THEN <<>>
    ELSE FieldIssues(table, GetFields(table)[n], table_names)
         \o FieldLoop(table, n + 1, table_names)

\* TableIssues with the primary key test after the loop over the fields
TableIssuesPkLast(table, table_names) ==
    FieldLoop(table, 1, table_names)
    \o (IF ~HasPk(table) THEN <<NoPkIssue(table)>> ELSE <<>>)

\* what the body of the outer loop appends for one table
TableIssues(table, table_names) ==
    (IF ~HasPk(table) THEN <<NoPkIssue(table)>> ELSE <<>>)
    \o FieldLoop(table, 1, table_names)

\* the outer loop from table n on
RECURSIVE TableLoop(_, _, _)
TableLoop(tables, n, table_names) ==
    IF n > Len(tables) THEN <<>>
    ELSE TableIssues(tables[n], table_names) \o TableLoop(tables, n + 1, table_names)

\* ValidateSchema with no test for an empty tables list
ValidateSchemaUnchecked(schema) ==
    LET tables == GetTables(schema)
        table_names == [n \in 1..Len(tables) |-> tables[n].name]
    IN  TableLoop(tables, 1, table_names)

\* validate_schema(schema_data)
ValidateSchema(schema) ==
    LET tables == GetTables(schema)
    IN  IF tables = <<>>
        THEN <<NoTablesIssue>>
        ELSE LET table_names == [n \in 1..Len(tables) |-> tables[n].name]
             IN  TableLoop(tables, 1, table_names)

\* tables plus fields of a schema
RECURSIVE CountFields(_, _)
CountFields(tables, n) ==
    IF n > Len(tables) THEN 0
    ELSE Len(tables[n].fields) + CountFields(tables, n + 1)

SchemaSize(schema) == Len(schema.tables) + CountFields(schema.tables, 1)

\* the caller's dict gets its 'tables' key, with an empty list
SetTables ==
    /\ vpc = "build"
    /\ ~vschema.has_tables
    /\ vschema' = [vschema EXCEPT !.has_tables = TRUE]
    /\ UNCHANGED <<vpc, issues>>
    /\ UNCHANGED pvars

\* the caller's dict gets one more table, with or without a 'fields' key
AddTable ==
    /\ vpc = "build"
    /\ vschema.has_tables
    /\ SchemaSize(vschema) < MaxSize
    /\ \E name \in TableNameSet, has_fields \in BOOLEAN :
           vschema' = [vschema EXCEPT !.tables =
               Append(@, [name |-> name, has_fields |-> has_fields, fields |-> <<>>])]
    /\ UNCHANGED <<vpc, issues>>
    /\ UNCHANGED pvars

\* the last table of the caller's dict gets one more field
AddField ==
    /\ vpc = "build"
    /\ vschema.tables # <<>>
    /\ vschema.tables[Len(vschema.tables)].has_fields
    /\ SchemaSize(vschema) < MaxSize
    /\ \E field \in FieldSet :
           vschema' = [vschema EXCEPT !.tables[Len(vschema.tables)].fields =
                           Append(@, field)]
    /\ UNCHANGED <<vpc, issues>>
    /\ UNCHANGED pvars

\* issues = SchemaValidator.validate_schema(schema_data)
Validate ==
    /\ vpc = "build"
    /\ issues' = ValidateSchema(vschema)
    /\ vpc' = "done"
    /\ UNCHANGED vschema
    /\ UNCHANGED pvars

----------------------------------------------------------------------------
(* Specification of generate_schema *)

VInit ==
    /\ vpc = "build"
    /\ vschema = [has_tables |-> FALSE, tables |-> <<>>]
    /\ issues = <<>>

PInit ==
    /\ pc = "start"
    /\ response = NoResponse
    /\ json_start = -1
    /\ json_end = 0
    /\ json_str = <<>>
    /\ attempts = <<>>
    /\ decode_failed = FALSE
    /\ schema_data = NoDict
    /\ result = NoResult

Init == PInit /\ VInit

Next ==
    \/ Invoke
    \/ InvokeFails
    \/ ParseResponse
    \/ Return

Spec == Init /\ [][Next]_vars

(* Specification of validate_schema *)

VNext ==
    \/ SetTables
    \/ AddTable
    \/ AddField
    \/ Validate

SpecValidator == Init /\ [][VNext]_vars

----------------------------------------------------------------------------
(* Properties of generate_schema *)

\* _parse_schema_response has run on the response
Parsed == attempts # <<>>

Content == ResponseContent(response)

\* the text holds no valid JSON: neither the candidate nor the whole text decodes
NoJsonAnywhere == ~JsonLoads(json_str).ok /\ ~JsonLoads(Content).ok

\* C1: a response that holds no valid JSON anywhere yields a Schema with
\* parsed_successfully false, the single placeholder table "parsing_error",
\* no relationships and the one design decision that reports the failure.
C1_ParseFailureFallback ==
    (pc = "done" /\ Parsed /\ NoJsonAnywhere) =>
        /\ result.parsed_successfully = FALSE
        /\ result.tables = FallbackTables
        /\ result.relationships = EmptyList
        /\ result.design_decisions = FallbackDecisions

\* C2: for a text with no "{" or with no "}" the candidate handed to the JSON
\* decoder is the text itself.
C2_ExtractionFallback ==
    (Parsed /\ (Find(Content, "{") = -1 \/ Find(Content, "}") = -1)) =>
        json_str = Content

RECURSIVE Depth(_, _)
Depth(body, n) ==
    IF n = 0 THEN 0
    ELSE Depth(body, n - 1)
         + (IF body[n] = "{" THEN 1 ELSE IF body[n] = "}" THEN -1 ELSE 0)

Balanced(body) ==
    /\ \A n \in 1..Len(body) : Depth(body, n) >= 0
    /\ Depth(body, Len(body)) = 0

NoSymbol(s, from, to, ch) == \A n \in from..to : s[n] # ch

\* C4 as stated: whenever the text is prefix + "{" + body + "}" + suffix with a
\* balanced body, for any prefix and suffix, the candidate is "{" + body + "}".
C4_ExtractionWellFormed ==
    Parsed =>
        \A i \in 1..Len(Content), j \in 1..Len(Content) :
            (i < j /\ Content[i] = "{" /\ Content[j] = "}"
                   /\ Balanced(SubSeq(Content, i + 1, j - 1)))
            => json_str = SubSeq(Content, i, j)

\* C4 as amended: the same, for a prefix that holds no "{" and a suffix that
\* holds no "}".
C4_ExtractionWellFormedOuter ==
    Parsed =>
        \A i \in 1..Len(Content), j \in 1..Len(Content) :
            (i < j /\ Content[i] = "{" /\ Content[j] = "}"
                   /\ Balanced(SubSeq(Content, i + 1, j - 1))
                   /\ NoSymbol(Content, 1, i - 1, "{")
                   /\ NoSymbol(Content, j + 1, Len(Content), "}"))
            => json_str = SubSeq(Content, i, j)

\* a balanced body with braces of its own, between a non-empty prefix and a
\* non-empty suffix
C4_Witness ==
    /\ Parsed
    /\ \E i \in 2..Len(Content), j \in 1..(Len(Content) - 1) :
           /\ i + 1 < j /\ Content[i] = "{" /\ Content[j] = "}"
           /\ ~NoSymbol(Content, i + 1, j - 1, "{")
           /\ Balanced(SubSeq(Content, i + 1, j - 1))
           /\ NoSymbol(Content, 1, i - 1, "{")
           /\ NoSymbol(Content, j + 1, Len(Content), "}")
           /\ json_str = SubSeq(Content, i, j)

\* value is what the decoded object holds under key, or [] when it has no such key
IsValueOf(value, d, key) ==
    IF \E n \in 1..Len(d.members) : d.members[n][1] = Str(key)
    THEN \E n \in 1..Len(d.members) : d.members[n] = <<Str(key), value>>
    ELSE value = EmptyList

\* C5: when the candidate is a valid JSON object, the Schema has
\* parsed_successfully true and its tables, relationships and design_decisions
\* are the decoded values of those keys, an absent key giving the empty list.
C5_ParseRoundTrip ==
    (pc = "done" /\ Parsed /\ JsonLoads(json_str).kind = "dict") =>
        /\ result.parsed_successfully = TRUE
        /\ IsValueOf(result.tables, JsonLoads(json_str), "tables")
        /\ IsValueOf(result.relationships, JsonLoads(json_str), "relationships")
        /\ IsValueOf(result.design_decisions, JsonLoads(json_str), "design_decisions")

\* an object cut out of a longer text, with tables given and the other two
\* keys defaulted
C5_Witness ==
    /\ pc = "done"
    /\ Parsed
    /\ json_str # Content
    /\ JsonLoads(json_str).kind = "dict"
    /\ result.tables = <<"[", "{", "}", ",", "1", "]">>
    /\ result.relationships = EmptyList
    /\ result.design_decisions = EmptyList
    /\ result.parsed_successfully

SchemaKeys ==
    {"tables", "relationships", "design_decisions", "raw_response",
     "parsed_successfully"}

\* C6: for every response generate_schema returns a Schema with its five keys,
\* and a failure to decode is signalled by parsed_successfully = false.
C6_ParseNeverRaises ==
    (pc = "done" /\ Parsed) =>
        /\ DOMAIN result = SchemaKeys
        /\ result.raw_response = response
        /\ (decode_failed \/ schema_data.kind # "dict") => ~result.parsed_successfully

----------------------------------------------------------------------------
(* Properties of validate_schema *)

Validated == vpc = "done"

\* the tables of the schema, by position, and the fields of a table, by position
TableIds == 1..Len(vschema.tables)
FieldIds(t) == IF vschema.tables[t].has_fields THEN 1..Len(vschema.tables[t].fields) ELSE {}
FieldAt(t, f) == vschema.tables[t].fields[f]
AllFieldIds == UNION {{<<t, f>> : f \in FieldIds(t)} : t \in TableIds}

SchemaHasTables == vschema.has_tables /\ vschema.tables # <<>>

\* how many times issue occurs in the returned list
Occurrences(issue) == Cardinality({n \in 1..Len(issues) : issues[n] = issue})

\* the field's references is a non-empty string with a "." in it
DottedReference(field) ==
    /\ field.has_references
    /\ \E n \in 1..Len(field.references) : field.references[n] = "."

\* the part of a dotted references before its first "."
BeforeFirstDot(ref) ==
    LET dot == CHOOSE n \in 1..Len(ref) : ref[n] = "." /\ \A m \in 1..(n - 1) : ref[m] # "."
    IN  SubSeq(ref, 1, dot - 1)

\* the field is a foreign key whose dotted references names no table of the schema
Dangling(t, f) ==
    /\ FieldAt(t, f).is_foreign_key = "true"
    /\ DottedReference(FieldAt(t, f))
    /\ \A u \in TableIds :
           vschema.tables[u].name # BeforeFirstDot(FieldAt(t, f).references)

\* the text of the dangling foreign key issue of a field with a dotted references
DanglingText(t, f) ==
    <<"Foreign key in '">> \o vschema.tables[t].name \o <<".">> \o FieldAt(t, f).name
    \o <<"' references non-existent table '">>
    \o BeforeFirstDot(FieldAt(t, f).references) \o <<"'">>

IsFkIssue(issue) == issue[1] = "Foreign key in '"

\* C7: for a schema with a table, the dangling foreign key issue is emitted for
\* a field exactly when the field has is_foreign_key true and a dotted
\* references whose part before the first "." is no table name: each such
\* field accounts for one occurrence of its issue, and no other foreign key
\* issue is in the list.
C7_DanglingForeignKey ==
    (Validated /\ SchemaHasTables) =>
        /\ \A tf \in AllFieldIds :
               DottedReference(FieldAt(tf[1], tf[2])) =>
                   Occurrences(DanglingText(tf[1], tf[2])) =
                       Cardinality({ug \in AllFieldIds :
                           /\ Dangling(ug[1], ug[2])
                           /\ DanglingText(ug[1], ug[2]) = DanglingText(tf[1], tf[2])})
        /\ \A n \in 1..Len(issues) :
               IsFkIssue(issues[n]) =>
                   \E tf \in AllFieldIds :
                       /\ Dangling(tf[1], tf[2])
                       /\ issues[n] = DanglingText(tf[1], tf[2])

\* one table holds a dangling foreign key, a foreign key to itself, a foreign
\* key with no "." in its references, and only the first is reported
C7_Witness ==
    /\ Validated
    /\ Len(vschema.tables) = 1
    /\ \E f \in FieldIds(1) : Dangling(1, f)
    /\ \E f \in FieldIds(1) :
           /\ FieldAt(1, f).is_foreign_key = "true"
           /\ DottedReference(FieldAt(1, f))
           /\ ~Dangling(1, f)
    /\ \E f \in FieldIds(1) :
           /\ FieldAt(1, f).is_foreign_key = "true"
           /\ FieldAt(1, f).has_references
           /\ FieldAt(1, f).references # <<>>
           /\ ~DottedReference(FieldAt(1, f))
    /\ Cardinality({n \in 1..Len(issues) : IsFkIssue(issues[n])}) = 1

\* the table has no field with is_primary_key true
LacksPk(t) == \A f \in FieldIds(t) : FieldAt(t, f).is_primary_key # "true"

NoPkText(name) == <<"Table '">> \o name \o <<"' has no primary key">>

\* C8: for a schema with a table, "Table '<name>' has no primary key" occurs
\* once for each table that has no field with is_primary_key true, and not at
\* all for a table that has one.
C8_MissingPrimaryKey ==
    (Validated /\ SchemaHasTables) =>
        \A t \in TableIds :
            Occurrences(NoPkText(vschema.tables[t].name)) =
                Cardinality({u \in TableIds :
                    /\ vschema.tables[u].name = vschema.tables[t].name
                    /\ LacksPk(u)})

\* a table with a primary key before a table whose only field says
\* is_primary_key false: one issue, for the second
C8_Witness ==
    /\ Validated
    /\ Len(vschema.tables) = 2
    /\ ~LacksPk(1)
    /\ \E f \in FieldIds(2) : FieldAt(2, f).is_primary_key = "false"
    /\ LacksPk(2)
    /\ vschema.tables[1].name # vschema.tables[2].name
    /\ issues = <<NoPkText(vschema.tables[2].name)>>

\* C9: when the tables list is empty or the 'tables' key is absent the result
\* is exactly ["No tables found in schema"]; for a schema with a table that
\* issue is not in the result.
C9_EmptyTables ==
    Validated =>
        /\ ~SchemaHasTables => issues = <<NoTablesIssue>>
        /\ SchemaHasTables => \A n \in 1..Len(issues) : issues[n] # NoTablesIssue

\* the 'tables' key is there with an empty list
C9_Witness ==
    /\ Validated
    /\ vschema.has_tables
    /\ vschema.tables = <<>>
    /\ issues = <<NoTablesIssue>>

\* every foreign key field with a dotted references names a table of the schema
ReferencesResolve ==
    \A tf \in AllFieldIds :
        (FieldAt(tf[1], tf[2]).is_foreign_key = "true"
            /\ DottedReference(FieldAt(tf[1], tf[2])))
        => \E u \in TableIds :
               vschema.tables[u].name = BeforeFirstDot(FieldAt(tf[1], tf[2]).references)

\* C10: the result is empty exactly when the schema has a table, every table
\* has a field with is_primary_key true, and every foreign key field with a
\* dotted references names a table of the schema.
C10_CleanSchema ==
    Validated =>
        (issues = <<>> <=>
            (SchemaHasTables /\ (\A t \in TableIds : ~LacksPk(t)) /\ ReferencesResolve))

\* two tables with a primary key each, the first with a foreign key to the second
C10_Witness ==
    /\ Validated
    /\ Len(vschema.tables) = 2
    /\ vschema.tables[1].name # vschema.tables[2].name
    /\ \E f \in FieldIds(1) :
           /\ FieldAt(1, f).is_foreign_key = "true"
           /\ DottedReference(FieldAt(1, f))
           /\ BeforeFirstDot(FieldAt(1, f).references) = vschema.tables[2].name
    /\ issues = <<>>

\* what gives rise to an issue: <<t, 0>> is the missing primary key of table t,
\* <<t, f>> the dangling foreign key of field f of table t
IssueSources ==
    {<<t, 0>> : t \in {u \in TableIds : LacksPk(u)}}
    \cup {tf \in AllFieldIds : Dangling(tf[1], tf[2])}

SourceText(src) ==
    IF src[2] = 0 THEN NoPkText(vschema.tables[src[1]].name)
    ELSE DanglingText(src[1], src[2])

\* iteration order: an earlier table first; within a table the primary key test,
\* then the fields in their order
Precedes(a, b) == a[1] < b[1] \/ (a[1] = b[1] /\ a[2] < b[2])

\* the place of a source among the sources, in iteration order
Rank(src) == 1 + Cardinality({other \in IssueSources : Precedes(other, src)})

\* C11: the returned list keeps the iteration order: the issues of an earlier
\* table come before those of a later table, within a table the missing
\* primary key issue comes before every foreign key issue, and the foreign key
\* issues of a table come in the order of its fields.
C11_IssueOrdering ==
    (Validated /\ SchemaHasTables) =>
        /\ Len(issues) = Cardinality(IssueSources)
        /\ \A src \in IssueSources : issues[Rank(src)] = SourceText(src)

\* a first table with no primary key and two dangling foreign keys to different
\* tables, then a second table with no primary key: four issues
C11_Witness ==
    /\ Validated
    /\ Len(vschema.tables) = 2
    /\ LacksPk(1)
    /\ LacksPk(2)
    /\ \E f \in FieldIds(1), g \in FieldIds(1) :
           /\ f < g
           /\ Dangling(1, f)
           /\ Dangling(1, g)
           /\ DanglingText(1, f) # DanglingText(1, g)
    /\ Len(issues) = 4

====
